---- MODULE Spec2Model ----
(***************************************************************************)
(* t0::MCParticleHitMatching (larana/T0Finder/MCParticleHitMatching_module) *)
(* as a state machine: the producer's produce(), invoked once per event.    *)
(*                                                                          *)
(* Energies and electron counts are small non-negative integers, which the  *)
(* float / double arithmetic of the module represents exactly; a fraction   *)
(* a / b is kept as the pair <<a, b>> (b = 0 is the NaN / inf of the code). *)
(* The output association is kept as the set of its entries: the order in   *)
(* which std::unordered_map is iterated is unspecified.                     *)
(***************************************************************************)
EXTENDS Integers, Sequences, FiniteSets

\* ------------------------------------------------------------------ bounds
MaxHits == 2        \* hits processed over one run (all events together)
MaxRecords == 3     \* sim::TrackIDE records the backtracker returns over one run
MaxParticles == 2   \* simb::MCParticle entries of one event

TrackIDs == {5, 7}                 \* Geant4 track ids of the records and particles
Deposits == {<<1, 1>>, <<2, 0>>, <<0, 1>>}   \* <<energy, numElectrons>> of a record

TrackIDEs == { [trackID |-> id, energy |-> d[1], numElectrons |-> d[2]] :
                 id \in TrackIDs, d \in Deposits }
\* The record lists of at most max records.
TrackIDELists(max) == UNION { [1..n -> TrackIDEs] : n \in 0..max }
MCParticleLists == UNION { [1..n -> TrackIDs] : n \in 0..MaxParticles }

\* ------------------------------------------------------------------- state
VARIABLES
    pc,                \* "idle" (outside produce), "hits" (top of the hit loop),
                       \* "records" (inside the record loop of one hit)
    isRealData,        \* evt.isRealData() of the current / last event
    mcpartAvailable,   \* the event holds the MCParticle collection
    hitsValid,         \* hitListHandle.isValid()
    mcpartList,        \* TrackId() of each simb::MCParticle, in order
    nHits,             \* hitList.size()
    i_h, i_t,          \* loop indices
    trkide_list,       \* bt->HitToTrackID(hitPtr) of the current hit
    maxe, tote, maxtrkid,
    maxn, totn, maxntrkid,
    trkid_lookup,      \* geant4 trkid -> MC particle location (local of produce)
    fTrkIDECollector,  \* member: trackID -> TrackIDEinfo
    MCPartHitassn,     \* entries added by addSingle
    evtProduct,        \* the products evt.put stored in the event, as a sequence
    outcome,           \* how the last produce() ended: "none", "returned", "threw"
    accessed,          \* collections fetched from the event by this invocation
    scans,             \* trackID -> number of scans of mcpartList this invocation
    hitsDone,          \* hits processed so far in the run (bounded by MaxHits)
    recordsDone        \* records returned so far in the run (bounded by MaxRecords)

vars == << pc, isRealData, mcpartAvailable, hitsValid, mcpartList, nHits, i_h, i_t,
           trkide_list, maxe, tote, maxtrkid, maxn, totn, maxntrkid, trkid_lookup,
           fTrkIDECollector, MCPartHitassn, evtProduct, outcome, accessed, scans,
           hitsDone, recordsDone >>

EmptyMap == [k \in {} |-> 0]
NoProduct == << >>
NoScans == [k \in TrackIDs |-> 0]

\* ------------------------------------------------- the record loop, 146-166
\* TrackIDEinfo of a key as std::unordered_map::operator[] delivers it: a key
\* not yet in the map is inserted value-initialised.
ZeroInfo == [E |-> 0, NumElectrons |-> 0]

At(coll, id) == IF id \in DOMAIN coll THEN coll[id] ELSE ZeroInfo

Store(coll, id, info) ==
    [k \in DOMAIN coll \cup {id} |-> IF k = id THEN info ELSE coll[k]]

\* Mutant of AddEnergy: = written for +=.
AddEnergyAssign(coll, t) ==
    Store(coll, t.trackID, [At(coll, t.trackID) EXCEPT !.E = t.energy])

\* fTrkIDECollector[t.trackID].E += t.energy
AddEnergy(coll, t) ==
    Store(coll, t.trackID, [At(coll, t.trackID) EXCEPT !.E = @ + t.energy])

\* fTrkIDECollector[t.trackID].NumElectrons += t.numElectrons
AddNumElectrons(coll, t) ==
    Store(coll, t.trackID,
          [At(coll, t.trackID) EXCEPT !.NumElectrons = @ + t.numElectrons])

\* Mutant of AddTotal: = written for +=.
AddTotalAssign(tot, x) == x

\* tote += t.energy ; totn += t.numElectrons
AddTotal(tot, x) == tot + x

\* Mutant of NewMaxE: the record's own energy is compared, not the sum.
NewMaxERecordOnly(coll, t, me) == t.energy > me

\* Mutant of NewMaxE: >= written for >.
NewMaxEOrEqual(coll, t, me) == coll[t.trackID].E >= me

\* if (fTrkIDECollector[t.trackID].E > maxe)
NewMaxE(coll, t, me) == coll[t.trackID].E > me

\* if (fTrkIDECollector[t.trackID].NumElectrons > maxn)
NewMaxN(coll, t, mn) == coll[t.trackID].NumElectrons > mn

\* The locals and the member the record loop updates, as one record.
AccumState(coll, me, te, mt, mn, tn, mnt) ==
    [coll |-> coll, maxe |-> me, tote |-> te, maxtrkid |-> mt,
     maxn |-> mn, totn |-> tn, maxntrkid |-> mnt]

\* maxe = -1; tote = 0; maxtrkid = -1; maxn = -1; totn = 0; maxntrkid = -1;
\* with the collector as given
ResetState(coll) == AccumState(coll, -1, 0, -1, -1, 0, -1)

\* Lines 148-156 for one record t.
Accumulate(st, t) ==
    LET c1   == AddEnergy(st.coll, t)
        te   == AddTotal(st.tote, t.energy)
        newE == NewMaxE(c1, t, st.maxe)
        c2   == AddNumElectrons(c1, t)
        tn   == AddTotal(st.totn, t.numElectrons)
        newN == NewMaxN(c2, t, st.maxn)
    IN  AccumState(c2,
                   IF newE THEN c1[t.trackID].E ELSE st.maxe,
                   te,
                   IF newE THEN t.trackID ELSE st.maxtrkid,
                   IF newN THEN c2[t.trackID].NumElectrons ELSE st.maxn,
                   tn,
                   IF newN THEN t.trackID ELSE st.maxntrkid)

\* while (i_p < mcpartList.size()) ... : the position of the first particle
\* with this TrackId, -1 when the loop runs off the end
RECURSIVE ScanFrom(_, _, _)
ScanFrom(parts, id, i_p) ==
    IF i_p >= Len(parts) THEN -1
    ELSE IF parts[i_p + 1] = id THEN i_p
    ELSE ScanFrom(parts, id, i_p + 1)

Scan(parts, id) == ScanFrom(parts, id, 0)

\* Mutant of NeedsScan: the cache is never consulted.
NeedsScanAlways(lookup, id) == TRUE

\* trkid_lookup.find(t.trackID) == trkid_lookup.end()
NeedsScan(lookup, id) == id \notin DOMAIN lookup

\* ------------------------------------------------- the entry loop, 173-184
\* Mutant of MatchingData: isMaxIDE is taken from the charge-dominant trackID.
MatchingDataChargeFlag(id, info, te, mt, tn, mnt) ==
    [ideFraction  |-> <<info.E, te>>,
     isMaxIDE     |-> (id = mnt),
     ideNFraction |-> <<info.NumElectrons, tn>>,
     isMaxIDEN    |-> (id = mnt),
     energy       |-> info.E,
     numElectrons |-> info.NumElectrons]

\* anab::BackTrackerHitMatchingData of one collector element
MatchingData(id, info, te, mt, tn, mnt) ==
    [ideFraction  |-> <<info.E, te>>,
     isMaxIDE     |-> (id = mt),
     ideNFraction |-> <<info.NumElectrons, tn>>,
     isMaxIDEN    |-> (id = mnt),
     energy       |-> info.E,
     numElectrons |-> info.NumElectrons]

\* Mutant of Skipped: the continue is missing.
SkippedNever(mcpart_i) == FALSE

\* if (mcpart_i == -1) continue;
Skipped(mcpart_i) == mcpart_i = -1

\* What addSingle is called with for hit h: one entry per collector element
\* that is not skipped.
Entries(h, st, lookup) ==
    { [hit |-> h, mcpart |-> lookup[id],
       data |-> MatchingData(id, st.coll[id], st.tote, st.maxtrkid,
                             st.totn, st.maxntrkid)] :
        id \in { k \in DOMAIN st.coll : ~Skipped(lookup[k]) } }

\* Mutant of Clear: the accumulator is not cleared.
ClearNothing(coll) == coll

\* fTrkIDECollector.clear()
Clear(coll) == EmptyMap

\* ------------------------------------------------------------------- Init
\* The locals of produce() outside an invocation hold the values of their
\* declarations (lines 116-124).
LocalsFresh ==
    /\ mcpartList' = << >>
    /\ nHits' = 0
    /\ i_h' = 0
    /\ i_t' = 0
    /\ trkide_list' = << >>
    /\ maxe' = -1 /\ tote' = 0 /\ maxtrkid' = -1
    /\ maxn' = -1 /\ totn' = 0 /\ maxntrkid' = -1
    /\ trkid_lookup' = EmptyMap
    /\ MCPartHitassn' = {}
    /\ scans' = NoScans

Init ==
    /\ pc = "idle"
    /\ isRealData = FALSE
    /\ mcpartAvailable = TRUE
    /\ hitsValid = TRUE
    /\ mcpartList = << >>
    /\ nHits = 0
    /\ i_h = 0
    /\ i_t = 0
    /\ trkide_list = << >>
    /\ maxe = -1 /\ tote = 0 /\ maxtrkid = -1
    /\ maxn = -1 /\ totn = 0 /\ maxntrkid = -1
    /\ trkid_lookup = EmptyMap
    /\ fTrkIDECollector = EmptyMap
    /\ MCPartHitassn = {}
    /\ evtProduct = NoProduct
    /\ outcome = "none"
    /\ accessed = {}
    /\ scans = NoScans
    /\ hitsDone = 0
    /\ recordsDone = 0

\* ---------------------------------------------------------------- produce
\* The event handed to this invocation.
NewEvent(real, parts, hits) ==
    /\ isRealData' = real
    /\ mcpartAvailable' = parts
    /\ hitsValid' = hits
    /\ evtProduct' = NoProduct

\* Mutant of ProduceRealData: the accumulator is cleared before the return.
ProduceRealDataClear ==
    /\ pc = "idle"
    /\ \E parts \in BOOLEAN, hits \in BOOLEAN : NewEvent(TRUE, parts, hits)
    /\ accessed' = {}
    /\ outcome' = "returned"
    /\ LocalsFresh
    /\ fTrkIDECollector' = EmptyMap
    /\ UNCHANGED << pc, hitsDone, recordsDone >>

\* if (evt.isRealData()) return;
ProduceRealData ==
    /\ pc = "idle"
    /\ \E parts \in BOOLEAN, hits \in BOOLEAN : NewEvent(TRUE, parts, hits)
    /\ accessed' = {}
    /\ outcome' = "returned"
    /\ LocalsFresh
    /\ UNCHANGED << pc, fTrkIDECollector, hitsDone, recordsDone >>

\* evt.getValidHandle<std::vector<simb::MCParticle>>: throws when the event
\* holds no such collection; nothing after line 113 runs.
ProduceMissingParticles ==
    /\ pc = "idle"
    /\ \E hits \in BOOLEAN : NewEvent(FALSE, FALSE, hits)
    /\ accessed' = {"MCParticle"}
    /\ outcome' = "threw"
    /\ LocalsFresh
    /\ UNCHANGED << pc, fTrkIDECollector, hitsDone, recordsDone >>

\* Mutant of ProduceInvalidHits: the return is missing and the empty
\* association is put.
ProduceInvalidHitsPut ==
    /\ pc = "idle"
    /\ isRealData' = FALSE
    /\ mcpartAvailable' = TRUE
    /\ hitsValid' = FALSE
    /\ evtProduct' = << {} >>
    /\ accessed' = {"MCParticle", "Hit"}
    /\ outcome' = "returned"
    /\ LocalsFresh
    /\ UNCHANGED << pc, fTrkIDECollector, hitsDone, recordsDone >>

\* if (!hitListHandle.isValid()) { ...; return; }
ProduceInvalidHits ==
    /\ pc = "idle"
    /\ NewEvent(FALSE, TRUE, FALSE)
    /\ accessed' = {"MCParticle", "Hit"}
    /\ outcome' = "returned"
    /\ LocalsFresh
    /\ UNCHANGED << pc, fTrkIDECollector, hitsDone, recordsDone >>

\* Lines 108-135 on a simulated event with both collections: the locals are
\* constructed and the hit loop is entered.
ProduceBegin ==
    /\ pc = "idle"
    /\ NewEvent(FALSE, TRUE, TRUE)
    /\ accessed' = {"MCParticle", "Hit"}
    /\ outcome' = "none"
    /\ \E parts \in MCParticleLists : mcpartList' = parts
    /\ \E n \in 0..(MaxHits - hitsDone) : nHits' = n
    /\ i_h' = 0
    /\ i_t' = 0
    /\ trkide_list' = << >>
    /\ maxe' = -1 /\ tote' = 0 /\ maxtrkid' = -1
    /\ maxn' = -1 /\ totn' = 0 /\ maxntrkid' = -1
    /\ trkid_lookup' = EmptyMap
    /\ MCPartHitassn' = {}
    /\ scans' = NoScans
    /\ pc' = "hits"
    /\ UNCHANGED << fTrkIDECollector, hitsDone, recordsDone >>

\* Lines 137-143: the next hit, its records from the backtracker, the reset.
HitBegin ==
    /\ pc = "hits"
    /\ i_h < nHits
    /\ \E l \in TrackIDELists(MaxRecords - recordsDone) :
          /\ trkide_list' = l
          /\ recordsDone' = recordsDone + Len(l)
    /\ maxe' = -1 /\ tote' = 0 /\ maxtrkid' = -1
    /\ maxn' = -1 /\ totn' = 0 /\ maxntrkid' = -1
    /\ fTrkIDECollector' = Clear(fTrkIDECollector)
    /\ i_t' = 0
    /\ hitsDone' = hitsDone + 1
    /\ pc' = "records"
    /\ UNCHANGED << isRealData, mcpartAvailable, hitsValid, mcpartList, nHits, i_h,
                    trkid_lookup, MCPartHitassn, evtProduct, outcome, accessed,
                    scans >>

CurrentState ==
    AccumState(fTrkIDECollector, maxe, tote, maxtrkid, maxn, totn, maxntrkid)

\* Lines 146-166: one record of the hit.
RecordStep ==
    /\ pc = "records"
    /\ i_t < Len(trkide_list)
    /\ LET t  == trkide_list[i_t + 1]
           st == Accumulate(CurrentState, t)
       IN  /\ fTrkIDECollector' = st.coll
           /\ maxe' = st.maxe /\ tote' = st.tote /\ maxtrkid' = st.maxtrkid
           /\ maxn' = st.maxn /\ totn' = st.totn /\ maxntrkid' = st.maxntrkid
           /\ IF NeedsScan(trkid_lookup, t.trackID)
              THEN /\ trkid_lookup' = Store(trkid_lookup, t.trackID,
                                            Scan(mcpartList, t.trackID))
                   /\ scans' = [scans EXCEPT ![t.trackID] = @ + 1]
              ELSE UNCHANGED << trkid_lookup, scans >>
    /\ i_t' = i_t + 1
    /\ UNCHANGED << pc, isRealData, mcpartAvailable, hitsValid, mcpartList, nHits,
                    i_h, trkide_list, MCPartHitassn, evtProduct, outcome, accessed,
                    hitsDone, recordsDone >>

\* Lines 173-186: the entries of the hit are added, ++i_h.
EmitEntries ==
    /\ pc = "records"
    /\ i_t = Len(trkide_list)
    /\ MCPartHitassn' = MCPartHitassn \cup Entries(i_h, CurrentState, trkid_lookup)
    /\ i_h' = i_h + 1
    /\ pc' = "hits"
    /\ UNCHANGED << isRealData, mcpartAvailable, hitsValid, mcpartList, nHits, i_t,
                    trkide_list, maxe, tote, maxtrkid, maxn, totn, maxntrkid,
                    trkid_lookup, fTrkIDECollector, evtProduct, outcome, accessed,
                    scans, hitsDone, recordsDone >>

\* evt.put(std::move(MCPartHitassn)); the locals go out of scope.
ProducePut ==
    /\ pc = "hits"
    /\ i_h = nHits
    /\ evtProduct' = << MCPartHitassn >>
    /\ outcome' = "returned"
    /\ LocalsFresh
    /\ pc' = "idle"
    /\ UNCHANGED << isRealData, mcpartAvailable, hitsValid, accessed,
                    fTrkIDECollector, hitsDone, recordsDone >>

Next ==
    \/ ProduceRealData
    \/ ProduceMissingParticles
    \/ ProduceInvalidHits
    \/ ProduceBegin
    \/ HitBegin
    \/ RecordStep
    \/ EmitEntries
    \/ ProducePut

Spec == Init /\ [][Next]_vars

\* ------------------------------------------------- what the claims speak of
\* The entry loop of hit i_h - 1 has just ended; the locals still hold that
\* hit's records, maxima and totals.
HitDone == pc = "hits" /\ i_h > 0

\* The entries added for the hit just processed.
HitEntries == { e \in MCPartHitassn : e.hit = i_h - 1 }

\* The distinct trackIDs of a record list.
RecordIDs(list) == { list[i].trackID : i \in 1..Len(list) }

\* Summed energy / electrons of a trackID over the first n records of a list.
RECURSIVE EnergyUpTo(_, _, _)
EnergyUpTo(list, id, n) ==
    IF n = 0 THEN 0
    ELSE EnergyUpTo(list, id, n - 1)
         + (IF list[n].trackID = id THEN list[n].energy ELSE 0)

RECURSIVE ElectronsUpTo(_, _, _)
ElectronsUpTo(list, id, n) ==
    IF n = 0 THEN 0
    ELSE ElectronsUpTo(list, id, n - 1)
         + (IF list[n].trackID = id THEN list[n].numElectrons ELSE 0)

EnergyOf(list, id) == EnergyUpTo(list, id, Len(list))
ElectronsOf(list, id) == ElectronsUpTo(list, id, Len(list))

\* A particle of the event carries this TrackId.
Resolved(id) == \E i \in 1..Len(mcpartList) : mcpartList[i] = id

\* The TrackId of the particle an entry points to.
ParticleOf(e) == mcpartList[e.mcpart + 1]

\* Index of the first record of a trackID.
FirstRecord(list, id) ==
    CHOOSE i \in 1..Len(list) :
        /\ list[i].trackID = id
        /\ \A j \in 1..(i - 1) : list[j].trackID # id

\* Index of the record at which the running sum of a trackID reaches its
\* final value.
ReachRecord(list, id) ==
    CHOOSE i \in 1..Len(list) :
        /\ list[i].trackID = id
        /\ EnergyUpTo(list, id, i) = EnergyOf(list, id)
        /\ \A j \in 1..(i - 1) :
              list[j].trackID = id => EnergyUpTo(list, id, j) # EnergyOf(list, id)

\* The trackIDs whose final summed energy is the maximum of the hit.
TopByEnergy(list) ==
    { k \in RecordIDs(list) :
        \A j \in RecordIDs(list) : EnergyOf(list, j) <= EnergyOf(list, k) }

\* The records of every trackID are adjacent in the list.
Contiguous(list) ==
    \A i, j \in 1..Len(list) :
        (i < j /\ list[i].trackID = list[j].trackID)
            => \A m \in i..j : list[m].trackID = list[i].trackID

FlaggedByEnergy == { e \in HitEntries : e.data.isMaxIDE }

\* ---------------------------------------------------------------- claim C1
\* C1 as stated: whenever at least one entry is emitted for a hit, exactly one
\* of the hit's entries has isMaxIDE = true, also when some trackID of the hit
\* has no matching particle.
C1_ExactlyOneFlagged ==
    (HitDone /\ HitEntries # {}) => Cardinality(FlaggedByEnergy) = 1

\* C1 amended: at most one entry of a hit has isMaxIDE = true; one has it
\* exactly when the hit has records and its energy-dominant trackID (maxtrkid)
\* has a matching particle, and that entry points to a particle carrying
\* maxtrkid.
C1_FlaggedIsResolvedDominant ==
    HitDone =>
        /\ Cardinality(FlaggedByEnergy) <= 1
        /\ (FlaggedByEnergy # {})
              <=> (maxtrkid \in RecordIDs(trkide_list) /\ Resolved(maxtrkid))
        /\ \A e \in FlaggedByEnergy : ParticleOf(e) = maxtrkid

\* A hit with an unresolved trackID, entries, and one flagged entry.
C1_Witness ==
    /\ HitDone
    /\ \E id \in RecordIDs(trkide_list) : ~Resolved(id)
    /\ Cardinality(FlaggedByEnergy) = 1

\* ---------------------------------------------------------------- claim C2
\* C2: for a hit with at least one record, maxtrkid has the maximal final
\* summed energy over the hit's trackIDs and, independently, maxntrkid has the
\* maximal final summed electron count.
C2_DominantIsMaximal ==
    (HitDone /\ Len(trkide_list) > 0) =>
        /\ maxtrkid \in RecordIDs(trkide_list)
        /\ maxntrkid \in RecordIDs(trkide_list)
        /\ \A k \in RecordIDs(trkide_list) :
              /\ EnergyOf(trkide_list, k) <= EnergyOf(trkide_list, maxtrkid)
              /\ ElectronsOf(trkide_list, k) <= ElectronsOf(trkide_list, maxntrkid)

\* A hit whose energy-dominant and charge-dominant trackIDs differ, each
\* strictly ahead of the other trackID.
C2_Witness ==
    /\ HitDone
    /\ Len(trkide_list) = 3
    /\ maxtrkid = 5 /\ maxntrkid = 7
    /\ EnergyOf(trkide_list, 5) > EnergyOf(trkide_list, 7)
    /\ ElectronsOf(trkide_list, 7) > ElectronsOf(trkide_list, 5)

\* ---------------------------------------------------------------- claim C3
\* C3 as stated: when several trackIDs end with the same maximal summed
\* energy, maxtrkid is the one of them encountered first in record order, for
\* every ordering of the records.
C3_TieToFirstEncountered ==
    (HitDone /\ Cardinality(TopByEnergy(trkide_list)) >= 2) =>
        \A k \in TopByEnergy(trkide_list) :
            FirstRecord(trkide_list, maxtrkid) <= FirstRecord(trkide_list, k)

\* C3 amended: among the trackIDs that end with the maximal summed energy,
\* maxtrkid is the one whose running sum reached that value first in record
\* order; it is the first of them encountered whenever the records of each
\* trackID are contiguous.
C3_TieToFirstToReach ==
    (HitDone /\ Cardinality(TopByEnergy(trkide_list)) >= 2) =>
        /\ maxtrkid \in TopByEnergy(trkide_list)
        /\ \A k \in TopByEnergy(trkide_list) :
              ReachRecord(trkide_list, maxtrkid) <= ReachRecord(trkide_list, k)
        /\ Contiguous(trkide_list) =>
              \A k \in TopByEnergy(trkide_list) :
                  FirstRecord(trkide_list, maxtrkid) <= FirstRecord(trkide_list, k)

\* A tie on interleaved records that goes to the trackID encountered second.
C3_Witness ==
    /\ HitDone
    /\ Cardinality(TopByEnergy(trkide_list)) >= 2
    /\ ~Contiguous(trkide_list)
    /\ \E k \in TopByEnergy(trkide_list) :
          FirstRecord(trkide_list, k) < FirstRecord(trkide_list, maxtrkid)

\* ---------------------------------------------------------------- claim C4
\* Sum of the energy / electron numerators of a set of entries.
RECURSIVE SumIDE(_)
SumIDE(es) ==
    IF es = {} THEN 0
    ELSE LET e == CHOOSE x \in es : TRUE
         IN  e.data.ideFraction[1] + SumIDE(es \ {e})

RECURSIVE SumIDEN(_)
SumIDEN(es) ==
    IF es = {} THEN 0
    ELSE LET e == CHOOSE x \in es : TRUE
         IN  e.data.ideNFraction[1] + SumIDEN(es \ {e})

\* Summed energy / electrons of all the records of a list.
RECURSIVE TotalEnergy(_)
TotalEnergy(list) ==
    IF list = << >> THEN 0 ELSE Head(list).energy + TotalEnergy(Tail(list))

RECURSIVE TotalElectrons(_)
TotalElectrons(list) ==
    IF list = << >> THEN 0
    ELSE Head(list).numElectrons + TotalElectrons(Tail(list))

\* Energy / electrons of the records whose trackID has no matching particle.
UnresolvedRecords(list) == SelectSeq(list, LAMBDA t : ~Resolved(t.trackID))

\* C4 as stated: for every hit with totalEnergy > 0 the energy numerators of
\* the hit's entries add up to the denominator tote (the fractions sum to 1),
\* and likewise the electron numerators to totn when totn is nonzero.
C4_FractionsSumToOne ==
    HitDone =>
        /\ tote > 0 => SumIDE(HitEntries) = tote
        /\ totn # 0 => SumIDEN(HitEntries) = totn

\* C4 amended: every entry of the hit has the hit's totals as denominators,
\* and the numerators of the hit's entries add up to the total less what the
\* records with an unresolved trackID deposited; so the fractions sum to 1
\* when the total is nonzero and every trackID of the hit has a particle.
C4_FractionsSumToResolvedShare ==
    HitDone =>
        /\ \A e \in HitEntries :
              /\ e.data.ideFraction[2] = tote
              /\ e.data.ideNFraction[2] = totn
        /\ SumIDE(HitEntries)
              = tote - TotalEnergy(UnresolvedRecords(trkide_list))
        /\ SumIDEN(HitEntries)
              = totn - TotalElectrons(UnresolvedRecords(trkide_list))
        /\ (\A id \in RecordIDs(trkide_list) : Resolved(id)) =>
              /\ SumIDE(HitEntries) = tote
              /\ SumIDEN(HitEntries) = totn

\* A hit with two entries, nonzero totals, every trackID resolved.
C4_Witness ==
    /\ HitDone
    /\ tote > 0 /\ totn > 0
    /\ \A id \in RecordIDs(trkide_list) : Resolved(id)
    /\ Cardinality(HitEntries) = 2
    /\ SumIDE(HitEntries) = tote

\* ---------------------------------------------------------------- claim C5
\* C5: a trackID without a matching particle gets no entry (the entries of a
\* hit point to existing particles, one per resolved trackID of the hit), its
\* energy and electrons are in the denominators of the hit's entries, and
\* produce() goes on without an error.
C5_UnresolvedCountedNotEmitted ==
    HitDone =>
        /\ \A e \in HitEntries :
              /\ e.mcpart \in 0..(Len(mcpartList) - 1)
              /\ ParticleOf(e) \in RecordIDs(trkide_list)
              /\ e.data.ideFraction[2] = TotalEnergy(trkide_list)
              /\ e.data.ideNFraction[2] = TotalElectrons(trkide_list)
        /\ Cardinality(HitEntries)
              = Cardinality({ id \in RecordIDs(trkide_list) : Resolved(id) })
        /\ outcome = "none"

\* A hit with an entry and an unresolved trackID that deposited energy and
\* electrons.
C5_Witness ==
    /\ HitDone
    /\ HitEntries # {}
    /\ TotalEnergy(UnresolvedRecords(trkide_list)) > 0
    /\ TotalElectrons(UnresolvedRecords(trkide_list)) > 0

\* ---------------------------------------------------------------- claim C6
\* C6: when every trackID of a hit's records has a matching particle, the hit
\* gets as many entries as its records have distinct trackIDs, each trackID's
\* entry carrying its summed energy and electrons; no records, no entries.
C6_OneEntryPerTrackID ==
    (HitDone /\ \A id \in RecordIDs(trkide_list) : Resolved(id)) =>
        /\ Cardinality(HitEntries) = Cardinality(RecordIDs(trkide_list))
        /\ \A id \in RecordIDs(trkide_list) :
              \E e \in HitEntries :
                  /\ ParticleOf(e) = id
                  /\ e.data.energy = EnergyOf(trkide_list, id)
                  /\ e.data.numElectrons = ElectronsOf(trkide_list, id)
        /\ Len(trkide_list) = 0 => HitEntries = {}

\* Three records on two trackIDs, both resolved, two entries.
C6_Witness ==
    /\ HitDone
    /\ Len(trkide_list) = 3
    /\ Cardinality(RecordIDs(trkide_list)) = 2
    /\ \A id \in RecordIDs(trkide_list) : Resolved(id)
    /\ Cardinality(HitEntries) = 2

\* ---------------------------------------------------------------- claim C7
\* produce() has ended on the event described by isRealData, mcpartAvailable
\* and hitsValid.
Ended == pc = "idle" /\ outcome # "none"

\* C7 as stated: on a simulated event without a valid hit collection produce()
\* returns normally with nothing put, and nothing else goes wrong in
\* produce(), whatever the availability of the particle collection.
C7_InvalidHitsReturn ==
    /\ (Ended /\ ~isRealData /\ ~hitsValid) =>
          (outcome = "returned" /\ evtProduct = NoProduct)
    /\ outcome # "threw"

\* C7 amended: on a simulated event that holds the particle collection but no
\* valid hit collection produce() returns normally with nothing put; on a
\* simulated event without the particle collection getValidHandle throws
\* before the hit collection is looked at, and produce() throws in no other
\* case.
C7_InvalidHitsReturnGivenParticles ==
    Ended =>
        /\ (~isRealData /\ mcpartAvailable /\ ~hitsValid) =>
              (outcome = "returned" /\ evtProduct = NoProduct
                                    /\ accessed = {"MCParticle", "Hit"})
        /\ (outcome = "threw") <=> (~isRealData /\ ~mcpartAvailable)
        /\ (outcome = "threw") => (evtProduct = NoProduct /\ "Hit" \notin accessed)

\* produce() has returned from a simulated event with particles and no hits.
C7_Witness ==
    /\ Ended
    /\ ~isRealData /\ mcpartAvailable /\ ~hitsValid
    /\ outcome = "returned"

\* ---------------------------------------------------------------- claim C8
\* C8: produce() on a real event returns at once: nothing is fetched from the
\* event, nothing is put, no entry is made, and the member accumulator and
\* the locals are as they were.
C8_RealDataChangesNothing ==
    [][ (pc = "idle" /\ isRealData') =>
            /\ pc' = "idle"
            /\ outcome' = "returned"
            /\ accessed' = {}
            /\ evtProduct' = NoProduct
            /\ MCPartHitassn' = {}
            /\ fTrkIDECollector' = fTrkIDECollector
            /\ trkid_lookup' = trkid_lookup
            /\ hitsDone' = hitsDone /\ recordsDone' = recordsDone ]_vars

\* produce() has returned from a real event with the accumulator still
\* holding what an earlier simulated event left in it.
C8_Witness ==
    /\ Ended
    /\ isRealData
    /\ outcome = "returned"
    /\ fTrkIDECollector # EmptyMap

\* ---------------------------------------------------------------- claim C9
\* Position of the first particle carrying a TrackId, -1 if there is none.
FirstParticle(id) ==
    IF Resolved(id)
    THEN (CHOOSE i \in 1..Len(mcpartList) :
              /\ mcpartList[i] = id
              /\ \A j \in 1..(i - 1) : mcpartList[j] # id) - 1
    ELSE -1

\* C9: within one invocation the particle list is scanned at most once per
\* trackID (once cached, resolved or not, a trackID is not scanned again in
\* this hit or a later one); the cache is empty when the hit loop is entered;
\* a cached value is -1 or the position of the first particle with the
\* trackID.
C9_ScannedAtMostOnce ==
    /\ \A id \in TrackIDs :
          /\ scans[id] <= 1
          /\ scans[id] = 1 <=> id \in DOMAIN trkid_lookup
    /\ \A id \in DOMAIN trkid_lookup : trkid_lookup[id] = FirstParticle(id)
    /\ (pc = "idle" \/ (pc = "hits" /\ i_h = 0)) => trkid_lookup = EmptyMap

\* The second hit of an event ends with a trackID that the first hit had too:
\* still one scan.
C9_Witness ==
    /\ HitDone
    /\ i_h = 2
    /\ \E id \in RecordIDs(trkide_list) :
          /\ scans[id] = 1
          /\ \E e \in MCPartHitassn : e.hit = 0 /\ ParticleOf(e) = id

\* --------------------------------------------------------------- claim C10
\* One hit computed on its own: a fresh accumulator, fresh maxima and totals,
\* every trackID resolved by a scan of its own.
RECURSIVE FreshAccumulate(_, _)
FreshAccumulate(list, n) ==
    IF n = 0 THEN ResetState(EmptyMap)
    ELSE Accumulate(FreshAccumulate(list, n - 1), list[n])

FreshEntries(h, list, parts) ==
    Entries(h, FreshAccumulate(list, Len(list)),
            [id \in RecordIDs(list) |-> Scan(parts, id)])

\* C10: the entries of a hit are those a computation of that hit alone would
\* add, from its records and the particle list only, whichever hits and
\* events were processed before.
C10_HitComputedAlone ==
    HitDone => HitEntries = FreshEntries(i_h - 1, trkide_list, mcpartList)

\* The first hit of a later event, after a hit with records in an earlier
\* event, with entries.
C10_Witness ==
    /\ HitDone
    /\ i_h = 1
    /\ hitsDone = 2
    /\ recordsDone > Len(trkide_list)
    /\ Cardinality(HitEntries) = 2

====
